---- MODULE Spec2Model ----
(***************************************************************************)
(* Model of the health-markers batch pipeline: etl_pipeline.py (extract,   *)
(* raw preservation, cleaning / validation / scoring, curated and          *)
(* analytics publication, run metadata) and ingestion_db.py (CSV files to  *)
(* tables).                                                                *)
(*                                                                         *)
(* A table or data frame is a record [exists, cols, rows]: cols is the set *)
(* of column names, rows a sequence of functions from cols to cells.  A    *)
(* cell is a record [k, n, s]: k is "num" (an integer n), "null" (SQL      *)
(* NULL, NaN, pd.NA), "text" (a string, s its characters) or "bool" (a     *)
(* pandas boolean, n = 1 for True).  Marker values are integers, so the    *)
(* quartile arithmetic of the code is exact and is carried out on values   *)
(* scaled by 4 and by 8.                                                   *)
(***************************************************************************)
EXTENDS Integers, Sequences, FiniteSets, TLC

VARIABLES pc, db, df, start, hist, arg, todo, log

vars == <<pc, db, df, start, hist, arg, todo, log>>

----------------------------------------------------------------------------
(* Cells *)

Num(n) == [k |-> "num", n |-> n, s |-> <<>>]

Null == [k |-> "null", n |-> 0, s |-> <<>>]

Txt(s) == [k |-> "text", n |-> 0, s |-> s]

Bool(b) == [k |-> "bool", n |-> IF b THEN 1 ELSE 0, s |-> <<>>]

Frame(cols, rows) == [exists |-> TRUE, cols |-> cols, rows |-> rows]

Absent == [exists |-> FALSE, cols |-> {}, rows |-> <<>>]

----------------------------------------------------------------------------
(* etl_pipeline.py: the range catalog and the column names *)

CLINICAL_RANGES ==
    [Blood_glucose |-> <<40, 500>>,
     HbA1C         |-> <<3, 20>>,
     Systolic_BP   |-> <<70, 250>>,
     Diastolic_BP  |-> <<40, 150>>,
     LDL           |-> <<20, 400>>,
     HDL           |-> <<10, 150>>,
     Triglycerides |-> <<30, 1000>>,
     Haemoglobin   |-> <<5, 25>>,
     MCV           |-> <<50, 130>>]

NUMERIC_COLS ==
    <<"Blood_glucose", "HbA1C", "Systolic_BP", "Diastolic_BP", "LDL", "HDL",
      "Triglycerides", "Haemoglobin", "MCV">>

Markers == {NUMERIC_COLS[i] : i \in 1..Len(NUMERIC_COLS)}

\* f"{col}_invalid"
InvalidCol ==
    [Blood_glucose |-> "Blood_glucose_invalid",
     HbA1C         |-> "HbA1C_invalid",
     Systolic_BP   |-> "Systolic_BP_invalid",
     Diastolic_BP  |-> "Diastolic_BP_invalid",
     LDL           |-> "LDL_invalid",
     HDL           |-> "HDL_invalid",
     Triglycerides |-> "Triglycerides_invalid",
     Haemoglobin   |-> "Haemoglobin_invalid",
     MCV           |-> "MCV_invalid"]

\* f"{col}_outlier"
OutlierCol ==
    [Blood_glucose |-> "Blood_glucose_outlier",
     HbA1C         |-> "HbA1C_outlier",
     Systolic_BP   |-> "Systolic_BP_outlier",
     Diastolic_BP  |-> "Diastolic_BP_outlier",
     LDL           |-> "LDL_outlier",
     HDL           |-> "HDL_outlier",
     Triglycerides |-> "Triglycerides_outlier",
     Haemoglobin   |-> "Haemoglobin_outlier",
     MCV           |-> "MCV_outlier"]

\* A column of the input that is no marker and whose name ends in "_invalid".
LegacyCol == "Legacy_invalid"

\* c.endswith("_invalid"), over the column names of the model
EndsWithInvalid(c) == c \in {InvalidCol[m] : m \in Markers} \cup {LegacyCol}

\* c.endswith("_outlier"), over the column names of the model
EndsWithOutlier(c) == c \in {OutlierCol[m] : m \in Markers}

RecordCols == Markers \cup {"Condition"}

DiagnosticCols ==
    {InvalidCol[m] : m \in Markers} \cup {OutlierCol[m] : m \in Markers}
        \cup {"invalid_count", "outlier_count", "quality_score"}

----------------------------------------------------------------------------
(* Helpers on sequences, sets and frames *)

RECURSIVE SumOver(_, _)
SumOver(S, f) ==
    IF S = {} THEN 0
    ELSE LET x == CHOOSE y \in S : TRUE IN f[x] + SumOver(S \ {x}, f)

RECURSIVE Insert(_, _)
Insert(x, s) ==
    IF s = <<>> THEN <<x>>
    ELSE IF x <= Head(s) THEN <<x>> \o s
    ELSE <<Head(s)>> \o Insert(x, Tail(s))

RECURSIVE Sorted(_)
Sorted(s) == IF s = <<>> THEN <<>> ELSE Insert(Head(s), Sorted(Tail(s)))

\* df[col] = values, df[new] = values: the column is replaced or added
SetCol(f, col, val) ==
    Frame(f.cols \cup {col},
          [i \in 1..Len(f.rows) |->
              [c \in f.cols \cup {col} |->
                  IF c = col THEN val[i] ELSE f.rows[i][c]]])

RECURSIVE SetCols(_, _, _, _)
SetCols(f, names, S, val) ==
    IF S = {} THEN f
    ELSE LET m == CHOOSE x \in S : TRUE
         IN  SetCols(SetCol(f, names[m], val[m]), names, S \ {m}, val)

Project(row, cols) == [c \in cols |-> row[c]]

----------------------------------------------------------------------------
(* pd.to_numeric(errors="coerce"), .str.strip(), .str.title() *)

Digits == {"0", "1", "2", "3", "4", "5", "6", "7", "8", "9"}

DigitVal ==
    [c \in Digits |->
        CASE c = "0" -> 0 [] c = "1" -> 1 [] c = "2" -> 2 [] c = "3" -> 3
          [] c = "4" -> 4 [] c = "5" -> 5 [] c = "6" -> 6 [] c = "7" -> 7
          [] c = "8" -> 8 [] c = "9" -> 9]

RECURSIVE ParseDigits(_, _)
ParseDigits(s, acc) ==
    IF s = <<>> THEN acc ELSE ParseDigits(Tail(s), 10 * acc + DigitVal[Head(s)])

\* One value through to_numeric: a number stays, a string of digits is
\* parsed, anything else (NULL, other text) becomes NaN.
to_numeric(c) ==
    CASE c.k = "num" -> c
      [] c.k = "text" /\ c.s # <<>> /\ \A i \in 1..Len(c.s) : c.s[i] \in Digits
            -> Num(ParseDigits(c.s, 0))
      [] OTHER -> Null

LowerCase == {"a", "b", "d"}

UpperCase == {"A", "B", "D"}

Upper(c) ==
    CASE c = "a" -> "A" [] c = "b" -> "B" [] c = "d" -> "D" [] OTHER -> c

Lower(c) ==
    CASE c = "A" -> "a" [] c = "B" -> "b" [] c = "D" -> "d" [] OTHER -> c

IsSpace(c) == c = " "

IsCased(c) == c \in LowerCase \cup UpperCase

RECURSIVE LStrip(_)
LStrip(s) == IF s # <<>> /\ IsSpace(Head(s)) THEN LStrip(Tail(s)) ELSE s

RECURSIVE RStrip(_)
RStrip(s) ==
    IF s # <<>> /\ IsSpace(s[Len(s)]) THEN RStrip(SubSeq(s, 1, Len(s) - 1)) ELSE s

strip(s) == RStrip(LStrip(s))

\* str.title(): a cased character is upper case when the character before
\* it is not cased (or there is none), lower case otherwise.
title(s) ==
    [i \in 1..Len(s) |->
        IF i > 1 /\ IsCased(s[i - 1]) THEN Lower(s[i]) ELSE Upper(s[i])]

\* One value through .astype("string").str.strip().str.title()
normalize_condition(c) == IF c.k = "text" THEN Txt(title(strip(c.s))) ELSE Null

----------------------------------------------------------------------------
(* validate_clinical_ranges, detect_outliers, calculate_quality_score *)

Column(f, col) == [i \in 1..Len(f.rows) |-> f.rows[i][col]]

\* Variant of range_flag: only the lower bound is compared.
range_flag_low_only(c, col) ==
    Bool(c.k = "num" /\ c.n < CLINICAL_RANGES[col][1])

\* (df[col] < min_val) | (df[col] > max_val): a comparison with NaN is False
range_flag(c, col) ==
    Bool(c.k = "num"
         /\ (c.n < CLINICAL_RANGES[col][1] \/ c.n > CLINICAL_RANGES[col][2]))

\* df[[c for c in df.columns if c.endswith(suffix)]].sum(axis=1)
SumFlags(f, S) ==
    [i \in 1..Len(f.rows) |-> Num(SumOver(S, [c \in S |-> f.rows[i][c].n]))]

validate_clinical_ranges(f) ==
    LET g == SetCols(f, InvalidCol, Markers,
                     [m \in Markers |->
                         [i \in 1..Len(f.rows) |-> range_flag(f.rows[i][m], m)]])
    IN  SetCol(g, "invalid_count",
               SumFlags(g, {c \in g.cols : EndsWithInvalid(c)}))

RECURSIVE NonMissing(_)
NonMissing(col) ==
    IF col = <<>> THEN <<>>
    ELSE IF Head(col).k = "num" THEN <<Head(col).n>> \o NonMissing(Tail(col))
    ELSE NonMissing(Tail(col))

\* 4 * Series.quantile(q4 / 4) of a non-empty sorted sequence: linear
\* interpolation at position (n - 1) * q.
Quantile4(v, q4) ==
    LET h == (Len(v) - 1) * q4
        i == h \div 4
        r == h % 4
    IN  IF r = 0 THEN 4 * v[i + 1] ELSE (4 - r) * v[i + 1] + r * v[i + 2]

\* (df[col] < lower) | (df[col] > upper), all scaled by 8
outlier_flag(c, v) ==
    IF c.k # "num" \/ v = <<>> THEN Bool(FALSE)
    ELSE LET Q1  == Quantile4(v, 1)
             Q3  == Quantile4(v, 3)
             IQR == Q3 - Q1
             lower == 2 * Q1 - 3 * IQR
             upper == 2 * Q3 + 3 * IQR
         IN  Bool(8 * c.n < lower \/ 8 * c.n > upper)

detect_outliers(f) ==
    LET g == SetCols(f, OutlierCol, Markers,
                     [m \in Markers |->
                         LET v == Sorted(NonMissing(Column(f, m)))
                         IN  [i \in 1..Len(f.rows) |->
                                 outlier_flag(f.rows[i][m], v)]])
    IN  SetCol(g, "outlier_count",
               SumFlags(g, {c \in g.cols : EndsWithOutlier(c)}))

clip_lower(x, lo) == IF x < lo THEN lo ELSE x

\* df[NUMERIC_COLS].isnull().sum(axis=1) of one row
missing_score(row) == Cardinality({m \in Markers : row[m].k = "null"})

\* Variant of calculate_quality_score: the score is not clipped.
calculate_quality_score_noclip(f) ==
    SetCol(f, "quality_score",
           [i \in 1..Len(f.rows) |->
               Num(100 - missing_score(f.rows[i]) * 5
                       - f.rows[i]["invalid_count"].n * 10
                       - f.rows[i]["outlier_count"].n * 3)])

calculate_quality_score(f) ==
    SetCol(f, "quality_score",
           [i \in 1..Len(f.rows) |->
               Num(clip_lower(100 - missing_score(f.rows[i]) * 5
                                  - f.rows[i]["invalid_count"].n * 10
                                  - f.rows[i]["outlier_count"].n * 3, 0))])

----------------------------------------------------------------------------
(* clean_dataframe *)

\* The number of leading NUMERIC_COLS the frame has: the coercion loop
\* raises KeyError at the first marker column that is absent.
RECURSIVE PresentPrefix(_, _)
PresentPrefix(f, k) ==
    IF k < Len(NUMERIC_COLS) /\ NUMERIC_COLS[k + 1] \in f.cols
    THEN PresentPrefix(f, k + 1) ELSE k

\* for col in NUMERIC_COLS: df[col] = pd.to_numeric(df[col], errors="coerce"),
\* for the first k marker columns
RECURSIVE Coerce(_, _)
Coerce(f, k) ==
    IF k = 0 THEN f
    ELSE LET g == Coerce(f, k - 1)
             col == NUMERIC_COLS[k]
         IN  SetCol(g, col, [i \in 1..Len(g.rows) |-> to_numeric(g.rows[i][col])])

clean_raises(f) == ~ (RecordCols \subseteq f.cols)

\* The frame as clean_dataframe leaves it when it raises: the columns
\* before the absent one are already coerced in place.
clean_partial(f) == Coerce(f, PresentPrefix(f, 0))

clean_dataframe(f) ==
    LET a == Coerce(f, Len(NUMERIC_COLS))
        b == SetCol(a, "Condition",
                    [i \in 1..Len(a.rows) |->
                        normalize_condition(a.rows[i]["Condition"])])
    IN  calculate_quality_score(detect_outliers(validate_clinical_ranges(b)))

----------------------------------------------------------------------------
(* Inputs: sample records and the frames built from them *)

MaxBatch == 4

MkRow(v, cond) ==
    [c \in RecordCols |->
        IF c = "Condition" THEN cond
        ELSE v[CHOOSE i \in 1..Len(NUMERIC_COLS) : NUMERIC_COLS[i] = c]]

\* every marker present and within its clinical range
rGood ==
    MkRow(<<Num(100), Num(5), Num(120), Num(80), Num(100), Num(50), Num(150),
            Num(14), Num(90)>>,
          Txt(<<" ", "d", "A", "b", " ">>))

\* Blood_glucose = 600, the other eight present and within range
rHigh ==
    MkRow(<<Num(600), Num(6), Num(125), Num(82), Num(110), Num(55), Num(160),
            Num(15), Num(92)>>,
          Txt(<<"a", "-", "b", " ", "d">>))

\* a NULL, an unparsable text, a numeric text; Condition NULL
rMiss ==
    MkRow(<<Num(110), Null, Txt(<<"1", "3", "0">>), Num(85),
            Txt(<<"n", "/", "a">>), Num(60), Num(170), Num(13), Num(88)>>,
          Null)

\* every marker far outside its clinical range
rBad ==
    MkRow(<<Num(900), Num(40), Num(300), Num(200), Num(500), Num(200),
            Num(2000), Num(1), Num(200)>>,
          Txt(<<"B", "A", "d">>))

SampleRows == {rGood, rHigh, rMiss, rBad}

RECURSIVE SeqsUpTo(_, _)
SeqsUpTo(S, n) ==
    IF n = 0 THEN {<<>>}
    ELSE LET T == SeqsUpTo(S, n - 1)
         IN  T \cup {Append(t, x) : t \in {u \in T : Len(u) = n - 1}, x \in S}

\* The same rows in a table that also has the column Legacy_invalid.
WithLegacy(row) ==
    [c \in RecordCols \cup {LegacyCol} |->
        IF c = LegacyCol THEN Num(IF row \in {rGood, rHigh} THEN 1 ELSE 0)
        ELSE row[c]]

CleanInputs ==
    {Frame(RecordCols, b) : b \in SeqsUpTo(SampleRows, MaxBatch)}
        \cup {Frame(RecordCols \cup {LegacyCol},
                    [i \in 1..Len(b) |-> WithLegacy(b[i])]) :
                 b \in SeqsUpTo(SampleRows, MaxBatch)}

\* One record with `missing` markers absent and the given counts, as
\* calculate_quality_score receives it.
MaxCount == Len(NUMERIC_COLS)

ScoreRow(missing, invalid, outlier) ==
    [c \in Markers \cup {"invalid_count", "outlier_count"} |->
        CASE c = "invalid_count" -> Num(invalid)
          [] c = "outlier_count" -> Num(outlier)
          [] OTHER ->
               IF (CHOOSE i \in 1..Len(NUMERIC_COLS) : NUMERIC_COLS[i] = c)
                      <= missing
               THEN Null ELSE Num(1)]

ScoreInputs ==
    {Frame(Markers \cup {"invalid_count", "outlier_count"},
           <<ScoreRow(m, i, o)>>) :
        m \in 0..MaxCount, i \in 0..MaxCount, o \in 0..MaxCount}

\* The base names of the CSV files the data directory may hold.
Stems == {"Health_markers_dataset", "patients", "visits"}

TableNames ==
    {"health_markers_raw", "health_markers_curated",
     "health_markers_analytics", "etl_metadata"} \cup Stems

----------------------------------------------------------------------------
(* The validation engine on its own: clean_dataframe and                   *)
(* calculate_quality_score applied to an input frame                       *)

InitClean ==
    /\ \/ pc = "clean_in" /\ arg \in CleanInputs
       \/ pc = "score_in" /\ arg \in ScoreInputs
    /\ df = Absent
    /\ db = [t \in TableNames |-> Absent]
    /\ start = db
    /\ hist = <<>>
    /\ todo = {}
    /\ log = <<>>

CleanStep ==
    /\ pc = "clean_in"
    /\ ~ clean_raises(arg)
    /\ df' = clean_dataframe(arg)
    /\ pc' = "clean_out"
    /\ UNCHANGED <<db, start, hist, arg, todo, log>>

ScoreStep ==
    /\ pc = "score_in"
    /\ df' = calculate_quality_score(arg)
    /\ pc' = "score_out"
    /\ UNCHANGED <<db, start, hist, arg, todo, log>>

NextClean == CleanStep \/ ScoreStep

SpecClean == InitClean /\ [][NextClean]_vars

----------------------------------------------------------------------------
(* Claims about the validation engine (SpecClean) *)

Rows(f) == 1..Len(f.rows)

\* The value of marker m in input record i, as a number or missing.
Coerced(i, m) == to_numeric(arg.rows[i][m])

OutOfRange(i, m) ==
    /\ Coerced(i, m).k = "num"
    /\ \/ Coerced(i, m).n < CLINICAL_RANGES[m][1]
       \/ Coerced(i, m).n > CLINICAL_RANGES[m][2]

RawScore(row) ==
    100 - 5 * missing_score(row) - 10 * row["invalid_count"].n
        - 3 * row["outlier_count"].n

CountsInRange(row) ==
    /\ row["invalid_count"].n \in 0..MaxCount
    /\ row["outlier_count"].n \in 0..MaxCount

\* C5: every record that clean_dataframe (or calculate_quality_score alone)
\* produces with missing, invalid and outlier counts in 0..9 has a
\* quality_score between 0 and 100.
C5_ScoreInBounds ==
    pc \in {"clean_out", "score_out"} =>
        \A i \in Rows(df) :
            CountsInRange(df.rows[i]) =>
                /\ df.rows[i]["quality_score"].k = "num"
                /\ df.rows[i]["quality_score"].n \in 0..100

\* A record out of clean_dataframe whose penalties exceed 100: the clip acts.
C5_Witness ==
    /\ pc = "clean_out"
    /\ \E i \in Rows(df) :
          /\ CountsInRange(df.rows[i])
          /\ RawScore(df.rows[i]) < 0
          /\ df.rows[i]["quality_score"].n = 0

\* C6: after validation, invalid_count of every record is the number of the
\* nine catalog markers whose value lies outside its clinical range; a
\* missing marker is not flagged, and no other input column contributes.
C6_InvalidCountIsRangeFlags ==
    pc = "clean_out" =>
        \A i \in Rows(df) :
            /\ df.rows[i]["invalid_count"].n
                  = Cardinality({m \in Markers : OutOfRange(i, m)})
            /\ \A m \in Markers :
                  Coerced(i, m).k = "null" =>
                      df.rows[i][InvalidCol[m]] = Bool(FALSE)

\* The record of the scenario: Blood_glucose 600, the other eight markers
\* present and within their ranges.
IsGlucose600(i) ==
    /\ Coerced(i, "Blood_glucose") = Num(600)
    /\ \A m \in Markers \ {"Blood_glucose"} :
          Coerced(i, m).k = "num" /\ ~ OutOfRange(i, m)

\* C7 as stated: such a record gets Blood_glucose_invalid = true,
\* invalid_count = 1 and quality_score = 90 in any batch.
C7_Original ==
    pc = "clean_out" =>
        \A i \in Rows(df) :
            IsGlucose600(i) =>
                /\ df.rows[i]["Blood_glucose_invalid"] = Bool(TRUE)
                /\ df.rows[i]["invalid_count"] = Num(1)
                /\ df.rows[i]["quality_score"] = Num(90)

OutlierMarkers(i) == {m \in Markers : df.rows[i][OutlierCol[m]] = Bool(TRUE)}

OtherInvalidSum(i) ==
    LET S == {c \in arg.cols : EndsWithInvalid(c)}
    IN  SumOver(S, [c \in S |-> arg.rows[i][c].n])

Max(a, b) == IF a > b THEN a ELSE b

\* C7 amended: such a record gets Blood_glucose_invalid = true; its
\* invalid_count is 1 plus the values of the other input columns named
\* *_invalid; its quality_score is 100 - 10 * invalid_count - 3 * (number of
\* its markers that are IQR outliers of the batch), not below 0: 90 when
\* invalid_count is 1 and no marker of the record is a batch outlier.
C7_Glucose600 ==
    pc = "clean_out" =>
        \A i \in Rows(df) :
            IsGlucose600(i) =>
                /\ df.rows[i]["Blood_glucose_invalid"] = Bool(TRUE)
                /\ df.rows[i]["invalid_count"].n = 1 + OtherInvalidSum(i)
                /\ df.rows[i]["quality_score"].n
                      = Max(0, 100 - 10 * (1 + OtherInvalidSum(i))
                                   - 3 * Cardinality(OutlierMarkers(i)))
                /\ (OtherInvalidSum(i) = 0 /\ OutlierMarkers(i) = {})
                      => df.rows[i]["quality_score"] = Num(90)

\* The scenario's record in a batch of several records, scored 90.
C7_Witness ==
    /\ pc = "clean_out"
    /\ Len(df.rows) >= 2
    /\ \E i \in Rows(df) :
          /\ IsGlucose600(i)
          /\ df.rows[i]["invalid_count"] = Num(1)
          /\ df.rows[i]["quality_score"] = Num(90)

----------------------------------------------------------------------------
(* etl_pipeline.py, the run: the table store and the steps of __main__ *)

SRC == "Health_markers_dataset"

RAW == "health_markers_raw"

CURATED == "health_markers_curated"

ANALYTICS == "health_markers_analytics"

METADATA == "etl_metadata"

MaxRuns == 2

Steps ==
    <<"EXTRACTING", "PRESERVING_RAW", "CLEANING", "PUBLISHING_CURATED",
      "PUBLISHING_ANALYTICS", "RECORDING_METADATA", "DONE">>

StepNo(p) == CHOOSE i \in 1..Len(Steps) : Steps[i] = p

\* The statement after step p of the try block.
NextStep(p) == Steps[StepNo(p) + 1]

Ended == {"DONE", "ERROR"}

\* DataFrame.to_sql stores a boolean as an integer; NaN and pd.NA as NULL.
to_sql_cell(c) == IF c.k = "bool" THEN Num(c.n) ELSE c

to_sql_rows(f, cols) ==
    [i \in 1..Len(f.rows) |->
        [c \in cols |-> IF c \in f.cols THEN to_sql_cell(f.rows[i][c]) ELSE Null]]

\* to_sql(if_exists="replace")
to_sql_replace(f) == Frame(f.cols, to_sql_rows(f, f.cols))

\* to_sql(if_exists="append") raises when the table exists and lacks a
\* column of the frame.
append_raises(t, f) == t.exists /\ ~ (f.cols \subseteq t.cols)

\* to_sql(if_exists="append"): the table is created from the frame when
\* absent; otherwise the rows are inserted, NULL in the columns the frame
\* does not have.
to_sql_append(t, f) ==
    IF t.exists THEN Frame(t.cols, t.rows \o to_sql_rows(f, t.cols))
    ELSE to_sql_replace(f)

extract_table(store) == store[SRC]

\* Variant of preserve_raw_table: nothing is written.
preserve_raw_table_noop(f, store) == store

\* Variant of preserve_raw_table: the marker columns are coerced first.
preserve_raw_table_coerced(f, store) ==
    [store EXCEPT
        ![RAW] = to_sql_append(store[RAW],
                               Coerce(f, PresentPrefix(f, 0)))]

preserve_raw_table(f, store) ==
    [store EXCEPT ![RAW] = to_sql_append(store[RAW], f)]

\* Variant of publish_curated: if_exists="append".
publish_curated_append(f, store) ==
    [store EXCEPT ![CURATED] = to_sql_append(store[CURATED], f)]

publish_curated(f, store) == [store EXCEPT ![CURATED] = to_sql_replace(f)]

RECURSIVE SelectSeq2(_, _)
SelectSeq2(s, keep) ==
    IF s = <<>> THEN <<>>
    ELSE IF keep[1] THEN <<Head(s)>> \o SelectSeq2(Tail(s), Tail(keep))
    ELSE SelectSeq2(Tail(s), Tail(keep))

\* Variant of analytics_query: no WHERE clause.
analytics_query_nofilter(t) ==
    Frame(RecordCols, [i \in 1..Len(t.rows) |-> Project(t.rows[i], RecordCols)])

\* SELECT <nine markers>, Condition FROM health_markers_curated
\* WHERE quality_score >= 80
analytics_query(t) ==
    LET keep == [i \in 1..Len(t.rows) |->
                    /\ t.rows[i]["quality_score"].k = "num"
                    /\ t.rows[i]["quality_score"].n >= 80]
        sel == SelectSeq2(t.rows, keep)
    IN  Frame(RecordCols, [i \in 1..Len(sel) |-> Project(sel[i], RecordCols)])

create_analytics_layer(store) ==
    [store EXCEPT ![ANALYTICS] = analytics_query(store[CURATED])]

\* DROP TABLE IF EXISTS has run, CREATE TABLE ... AS SELECT has not.
analytics_dropped(store) == [store EXCEPT ![ANALYTICS] = Absent]

MetadataCols ==
    {"run_timestamp", "rows_processed", "pipeline_version", "source_table"}

\* The metadata frame of one run; datetime.now() is the ordinal of the run.
metadata_frame(now, rows_processed) ==
    Frame(MetadataCols,
          <<[run_timestamp    |-> Num(now),
             rows_processed   |-> Num(rows_processed),
             pipeline_version |-> Txt(<<"v", "1", ".", "0">>),
             source_table     |-> Txt(<<"H", "e", "a", "l", "t", "h", "_", "m",
                                        "a", "r", "k", "e", "r", "s", "_", "d",
                                        "a", "t", "a", "s", "e", "t">>)]>>)

\* Variant of update_metadata: if_exists="replace".
update_metadata_replace(store, now, rows_processed) ==
    [store EXCEPT ![METADATA] = to_sql_replace(metadata_frame(now, rows_processed))]

update_metadata(store, now, rows_processed) ==
    [store EXCEPT
        ![METADATA] = to_sql_append(store[METADATA],
                                    metadata_frame(now, rows_processed))]

----------------------------------------------------------------------------
(* The source tables a run may find *)

Restrict(rows, cols) == [i \in 1..Len(rows) |-> Project(rows[i], cols)]

\* Batches of the source table: empty, one record, records that pass and
\* records that fail the analytics threshold in either order.
SampleBatches ==
    {<<>>, <<rMiss>>, <<rBad>>, <<rBad, rGood>>, <<rMiss, rBad, rMiss>>}

\* Tables with the full record schema, and two tables that lack a column of
\* the catalog or Condition.
SourceTables ==
    {Frame(RecordCols, b) : b \in SampleBatches}
        \cup {Frame(RecordCols \ {c}, Restrict(<<rMiss, rBad>>, RecordCols \ {c})) :
                 c \in {"LDL", "Condition"}}

Init ==
    /\ pc = "EXTRACTING"
    /\ \E t \in SourceTables \cup {Absent} :
          db = [n \in TableNames |-> IF n = SRC THEN t ELSE Absent]
    /\ start = db
    /\ df = Absent
    /\ hist = <<>>
    /\ arg = Absent
    /\ todo = {}
    /\ log = <<>>

\* The run ends: except Exception (ERROR) or the end of the try block (DONE).
EndRun(outcome) ==
    /\ pc' = outcome
    /\ hist' = Append(hist, [batch |-> start[SRC], outcome |-> outcome,
                             failedAt |-> IF outcome = "ERROR" THEN pc ELSE "-"])

Extract ==
    /\ pc = "EXTRACTING"
    /\ db[SRC].exists
    /\ df' = extract_table(db)
    /\ pc' = NextStep(pc)
    /\ UNCHANGED <<db, start, hist, arg, todo, log>>

ExtractFail ==
    /\ pc = "EXTRACTING"
    /\ ~ db[SRC].exists
    /\ EndRun("ERROR")
    /\ UNCHANGED <<db, df, start, arg, todo, log>>

PreserveRaw ==
    /\ pc = "PRESERVING_RAW"
    /\ ~ append_raises(db[RAW], df)
    /\ db' = preserve_raw_table(df, db)
    /\ pc' = NextStep(pc)
    /\ UNCHANGED <<df, start, hist, arg, todo, log>>

PreserveRawFail ==
    /\ pc = "PRESERVING_RAW"
    /\ append_raises(db[RAW], df)
    /\ EndRun("ERROR")
    /\ UNCHANGED <<db, df, start, arg, todo, log>>

Clean ==
    /\ pc = "CLEANING"
    /\ ~ clean_raises(df)
    /\ df' = clean_dataframe(df)
    /\ pc' = NextStep(pc)
    /\ UNCHANGED <<db, start, hist, arg, todo, log>>

\* Variant of CleanFail: the handler restores the tables of the run's start.
CleanFail_rollback ==
    /\ pc = "CLEANING"
    /\ clean_raises(df)
    /\ df' = clean_partial(df)
    /\ db' = start
    /\ pc' = "ERROR"
    /\ hist' = Append(hist, [batch |-> start[SRC], outcome |-> "ERROR",
                             failedAt |-> pc])
    /\ UNCHANGED <<start, arg, todo, log>>

CleanFail ==
    /\ pc = "CLEANING"
    /\ clean_raises(df)
    /\ df' = clean_partial(df)
    /\ EndRun("ERROR")
    /\ UNCHANGED <<db, start, arg, todo, log>>

PublishCurated ==
    /\ pc = "PUBLISHING_CURATED"
    /\ db' = publish_curated(df, db)
    /\ pc' = NextStep(pc)
    /\ UNCHANGED <<df, start, hist, arg, todo, log>>

\* The store raises (sqlite3.Error) and the write has no effect.
PublishCuratedFail ==
    /\ pc = "PUBLISHING_CURATED"
    /\ EndRun("ERROR")
    /\ UNCHANGED <<db, df, start, arg, todo, log>>

PublishAnalytics ==
    /\ pc = "PUBLISHING_ANALYTICS"
    /\ db' = create_analytics_layer(db)
    /\ pc' = NextStep(pc)
    /\ UNCHANGED <<df, start, hist, arg, todo, log>>

\* The store raises at the DROP (no effect) or at the CREATE (table dropped).
PublishAnalyticsFail ==
    /\ pc = "PUBLISHING_ANALYTICS"
    /\ \/ db' = db
       \/ db' = analytics_dropped(db)
    /\ EndRun("ERROR")
    /\ UNCHANGED <<df, start, arg, todo, log>>

RecordMetadata ==
    /\ pc = "RECORDING_METADATA"
    /\ db' = update_metadata(db, Len(hist) + 1, Len(df.rows))
    /\ EndRun("DONE")
    /\ UNCHANGED <<df, start, arg, todo, log>>

RecordMetadataFail ==
    /\ pc = "RECORDING_METADATA"
    /\ EndRun("ERROR")
    /\ UNCHANGED <<db, df, start, arg, todo, log>>

\* The next invocation of the pipeline.
NewRun ==
    /\ pc \in Ended
    /\ Len(hist) < MaxRuns
    /\ pc' = "EXTRACTING"
    /\ start' = db
    /\ df' = Absent
    /\ UNCHANGED <<db, hist, arg, todo, log>>

\* Between runs, ingestion replaces the source table (ingest_db).
Reingest ==
    /\ pc \in Ended
    /\ Len(hist) < MaxRuns
    /\ \E t \in SourceTables : db' = [db EXCEPT ![SRC] = t]
    /\ UNCHANGED <<pc, df, start, hist, arg, todo, log>>

RunStep ==
    \/ Extract \/ ExtractFail
    \/ PreserveRaw \/ PreserveRawFail
    \/ Clean \/ CleanFail
    \/ PublishCurated \/ PublishCuratedFail
    \/ PublishAnalytics \/ PublishAnalyticsFail
    \/ RecordMetadata \/ RecordMetadataFail

Next == RunStep \/ NewRun \/ Reingest

Spec == Init /\ [][Next]_vars

\* A statement of the run executes: the position moves to the next step or
\* to ERROR.  Within Next these are exactly the RunStep steps, and in every
\* state with a run in progress one of them is enabled (the guards of a
\* step and of its failure are complementary).
Advance == pc \notin Ended /\ pc' \in {NextStep(pc), "ERROR"}

\* The run is sequential code: a started run keeps executing statements.
FairSpec == Spec /\ WF_pc(Advance)

----------------------------------------------------------------------------
(* Claims about the run (Spec, FairSpec) *)

LastRun == hist[Len(hist)]

DoneRuns == Cardinality({i \in 1..Len(hist) : hist[i].outcome = "DONE"})

\* The source table lacks a marker column of the catalog or Condition.
ConfigError(t) == t.exists /\ ~ (RecordCols \subseteq t.cols)

AfterCleaning ==
    {"PUBLISHING_CURATED", "PUBLISHING_ANALYTICS", "RECORDING_METADATA", "DONE"}

\* C1 as stated: with a catalog column or Condition absent from the source
\* table, the run ends in ERROR and has changed none of the four tables.
C1_Original ==
    ConfigError(start[SRC]) =>
        /\ pc \notin AfterCleaning
        /\ pc = "ERROR" =>
              \A t \in {RAW, CURATED, ANALYTICS, METADATA} : db[t] = start[t]

\* C1 amended: with a catalog column or Condition absent from the source
\* table, the run ends in ERROR without reaching any step after CLEANING,
\* and has changed none of curated, analytics and etl_metadata; when the
\* error is raised in CLEANING, the extracted rows have already been
\* appended to health_markers_raw (raw is unchanged only when the append
\* itself failed).
C1_ConfigErrorWritesOnlyRaw ==
    ConfigError(start[SRC]) =>
        /\ pc \notin AfterCleaning
        /\ pc = "ERROR" =>
              /\ \A t \in {CURATED, ANALYTICS, METADATA} : db[t] = start[t]
              /\ LastRun.failedAt \in {"PRESERVING_RAW", "CLEANING"}
              /\ LastRun.failedAt = "PRESERVING_RAW" => db[RAW] = start[RAW]
              /\ LastRun.failedAt = "CLEANING" =>
                    /\ db[RAW].exists
                    /\ Len(db[RAW].rows)
                          = Len(start[RAW].rows) + Len(start[SRC].rows)

\* A second run finds a source table without a catalog column, fails in
\* CLEANING, and leaves the earlier curated table as it was.
C1_Witness ==
    /\ pc = "ERROR"
    /\ ConfigError(start[SRC])
    /\ LastRun.failedAt = "CLEANING"
    /\ start[CURATED].exists
    /\ db[RAW] # start[RAW]

AnalyticsFromCurated ==
    db[ANALYTICS].exists =>
        \A i \in 1..Len(db[ANALYTICS].rows) :
            /\ db[CURATED].exists
            /\ \E j \in 1..Len(db[CURATED].rows) :
                  /\ db[CURATED].rows[j]["quality_score"].n >= 80
                  /\ Project(db[CURATED].rows[j], RecordCols)
                        = db[ANALYTICS].rows[i]

AnalyticsNoDiagnostics ==
    db[ANALYTICS].exists => db[ANALYTICS].cols = RecordCols

C3_Original == pc \in Ended => Len(db[METADATA].rows) = Len(hist)

\* C3 amended: a run that ends in DONE appends exactly one row to
\* etl_metadata and a run that ends in ERROR appends none; no step modifies
\* or deletes an existing row; etl_metadata holds as many rows as runs have
\* ended in DONE.
C3_MetadataAppendOnly ==
    /\ [](Len(db[METADATA].rows) = DoneRuns)
    /\ [][/\ Len(db'[METADATA].rows) >= Len(db[METADATA].rows)
          /\ SubSeq(db'[METADATA].rows, 1, Len(db[METADATA].rows))
                = db[METADATA].rows
          /\ db'[METADATA] # db[METADATA] =>
                /\ pc = "RECORDING_METADATA" /\ pc' = "DONE"
                /\ Len(db'[METADATA].rows) = Len(db[METADATA].rows) + 1
                /\ db'[METADATA].rows[Len(db'[METADATA].rows)]["rows_processed"]
                      = Num(Len(start[SRC].rows))]_vars

\* Two runs have ended, one in DONE and one in ERROR: one metadata row.
C3_Witness ==
    /\ pc \in Ended
    /\ Len(hist) = 2
    /\ DoneRuns = 1
    /\ Len(db[METADATA].rows) = 1

Suffix(s, n) == SubSeq(s, Len(s) - n + 1, Len(s))

\* C4: after two successful runs over batches B1 then B2, raw ends with the
\* rows of B1 followed by the rows of B2, etl_metadata has one row per run,
\* and curated holds exactly the validated rows of B2.
C4_Rerun ==
    (pc = "DONE" /\ Len(hist) >= 2 /\ hist[Len(hist) - 1].outcome = "DONE") =>
        LET B1 == hist[Len(hist) - 1].batch
            B2 == LastRun.batch
        IN  /\ Len(db[RAW].rows) >= Len(B1.rows) + Len(B2.rows)
            /\ Restrict(Suffix(db[RAW].rows, Len(B1.rows) + Len(B2.rows)),
                        RecordCols)
                  = Restrict(B1.rows \o B2.rows, RecordCols)
            /\ Len(db[METADATA].rows) = DoneRuns
            /\ Len(hist) = 2 => Len(db[METADATA].rows) = 2
            /\ Len(db[CURATED].rows) = Len(B2.rows)
            /\ \A i \in 1..Len(B2.rows) :
                  /\ \A m \in Markers :
                        db[CURATED].rows[i][m] = to_numeric(B2.rows[i][m])
                  /\ db[CURATED].rows[i]["Condition"]
                        = normalize_condition(B2.rows[i]["Condition"])
            /\ DiagnosticCols \subseteq db[CURATED].cols

\* Two successful runs over different, non-empty batches.
C4_Witness ==
    /\ pc = "DONE"
    /\ Len(hist) = 2
    /\ hist[1].outcome = "DONE"
    /\ hist[1].batch.rows # <<>>
    /\ hist[2].batch.rows # <<>>
    /\ hist[1].batch.rows # hist[2].batch.rows
    /\ Len(db[RAW].rows) = Len(hist[1].batch.rows) + Len(hist[2].batch.rows)

\* The tables the steps before p of a run have written.
WrittenBefore(p) ==
    CASE p \in {"EXTRACTING", "PRESERVING_RAW"} -> {}
      [] p \in {"CLEANING", "PUBLISHING_CURATED"} -> {RAW}
      [] p = "PUBLISHING_ANALYTICS" -> {RAW, CURATED}
      [] OTHER -> {RAW, CURATED, ANALYTICS}

StepOrder ==
    /\ pc \notin Ended =>
          /\ pc' \in {NextStep(pc), "ERROR"}
          /\ Len(hist') = Len(hist) + (IF pc' \in Ended THEN 1 ELSE 0)
          /\ pc' = "ERROR" => \A t \in WrittenBefore(pc) : db'[t] = db[t]
    /\ pc \in Ended =>
          /\ pc' \in {pc, "EXTRACTING"}
          /\ \A t \in {RAW, CURATED, ANALYTICS, METADATA} : db'[t] = db[t]
          /\ pc' = "EXTRACTING" => hist' = hist /\ Len(hist) < MaxRuns

\* C9: a run takes its steps in the order EXTRACTING .. DONE, each at most
\* once; a failing step moves it to ERROR, after which no step of the run
\* executes and nothing the run has written is undone; every run ends in
\* DONE or ERROR.
C9_RunOrder ==
    /\ [][StepOrder]_vars
    /\ [](pc \notin Ended => <>(pc \in Ended))

\* A run that has written raw and curated fails in PUBLISHING_ANALYTICS.
C9_Witness ==
    /\ pc = "ERROR"
    /\ LastRun.failedAt = "PUBLISHING_ANALYTICS"
    /\ db[RAW] # start[RAW]
    /\ db[CURATED] # start[CURATED]

RawWritten ==
    \/ pc \in {"CLEANING"} \cup AfterCleaning
    \/ pc = "ERROR" /\ LastRun.failedAt \notin {"EXTRACTING", "PRESERVING_RAW"}

\* C10: the rows a run appends to health_markers_raw are the rows extracted
\* from the source table, with their original values and no diagnostic
\* column, whatever the cleaning step does to the frame afterwards; the rows
\* raw held before stay; no step of a run changes the source table.
C10_RawUnmodified ==
    /\ [](RawWritten =>
            LET n0 == Len(start[RAW].rows)
                src == start[SRC]
            IN  /\ Len(db[RAW].rows) = n0 + Len(src.rows)
                /\ SubSeq(db[RAW].rows, 1, n0) = start[RAW].rows
                /\ \A i \in 1..Len(src.rows) :
                      Project(db[RAW].rows[n0 + i], src.cols) = src.rows[i]
                /\ db[RAW].cols \cap DiagnosticCols = {})
    /\ [][pc \notin Ended => db'[SRC] = db[SRC]]_vars

\* A later run has appended rows with unparsed text to raw and has then
\* cleaned its frame in place.
C10_Witness ==
    /\ pc = "DONE"
    /\ start[RAW].rows # <<>>
    /\ \E i \in 1..Len(start[SRC].rows) :
          /\ start[SRC].rows[i]["LDL"].k = "text"
          /\ df.rows[i]["LDL"] = Null
          /\ db[RAW].rows[Len(start[RAW].rows) + i]["LDL"].k = "text"

----------------------------------------------------------------------------
(* ingestion_db.py: load_raw_data over the CSV files of the data directory *)

IsDigits(c) == c.s # <<>> /\ \A i \in 1..Len(c.s) : c.s[i] \in Digits

\* pd.read_csv infers a numeric column when every non-empty field of the
\* column is a number; otherwise the fields stay strings.  An empty field
\* is NaN.
numeric_column(f, col) ==
    \A i \in 1..Len(f.rows) : f.rows[i][col].s = <<>> \/ IsDigits(f.rows[i][col])

read_csv(f) ==
    Frame(f.cols,
          [i \in 1..Len(f.rows) |->
              [c \in f.cols |->
                  IF f.rows[i][c].s = <<>> THEN Null
                  ELSE IF numeric_column(f, c)
                       THEN Num(ParseDigits(f.rows[i][c].s, 0))
                       ELSE f.rows[i][c]]])

\* read_csv raises on a file it cannot parse (empty, unreadable).
read_csv_raises(f) == ~ f.exists

\* df.to_sql(table_name, con=engine, if_exists="replace", index=False)
ingest_db(f, table_name, store) ==
    [store EXCEPT ![table_name] = to_sql_replace(f)]

CsvCols == {"Blood_glucose", "Condition"}

CsvRow(g, c) == [Blood_glucose |-> Txt(g), Condition |-> Txt(c)]

\* The files: a numeric column with an empty field, a column with a field
\* that is no number, and a file that cannot be parsed.
CsvFiles ==
    {Frame(CsvCols, <<CsvRow(<<"1", "3", "0">>, <<"a", "b">>),
                      CsvRow(<<>>, <<"d">>)>>),
     Frame(CsvCols, <<CsvRow(<<"n", "/", "a">>, <<>>),
                      CsvRow(<<"6", "0", "0">>, <<" ", "B">>),
                      CsvRow(<<"4", "0">>, <<"a">>)>>),
     Absent}

\* A table left by an earlier ingestion.
OldTable == Frame(CsvCols, <<[Blood_glucose |-> Num(7), Condition |-> Null]>>)

Directories ==
    UNION {[S -> CsvFiles] : S \in SUBSET Stems}

InitIngest ==
    /\ pc = "INGEST_START"
    /\ \E exists \in BOOLEAN, files \in Directories :
          /\ exists \/ files = << >>
          /\ arg = [exists |-> exists, files |-> files]
    /\ \E old \in SUBSET Stems :
          db = [n \in TableNames |-> IF n \in old THEN OldTable ELSE Absent]
    /\ start = db
    /\ df = Absent
    /\ hist = <<>>
    /\ todo = {}
    /\ log = <<>>

\* if not DATA_DIR.exists(): raise FileNotFoundError
LoadNoDir ==
    /\ pc = "INGEST_START"
    /\ ~ arg.exists
    /\ pc' = "INGEST_RAISED"
    /\ UNCHANGED <<db, df, start, hist, arg, todo, log>>

\* for file_path in DATA_DIR.glob("*.csv")
LoadStart ==
    /\ pc = "INGEST_START"
    /\ arg.exists
    /\ todo' = DOMAIN arg.files
    /\ pc' = "INGEST_LOOP"
    /\ UNCHANGED <<db, df, start, hist, arg, log>>

LogEntry(level, file) == [level |-> level, file |-> file]

\* One iteration of the loop, the try body completes.
IngestFile(file) ==
    /\ pc = "INGEST_LOOP"
    /\ file \in todo
    /\ ~ read_csv_raises(arg.files[file])
    /\ df' = read_csv(arg.files[file])
    /\ log' = Append(log, LogEntry("INFO", file))
    /\ db' = ingest_db(df', file, db)
    /\ todo' = todo \ {file}
    /\ UNCHANGED <<pc, start, hist, arg>>

\* Variant of IngestFileFail: the failure ends the loop.
IngestFileFail_abort(file) ==
    /\ pc = "INGEST_LOOP"
    /\ file \in todo
    /\ log' = Append(log, LogEntry("ERROR", file))
    /\ todo' = {}
    /\ UNCHANGED <<pc, db, df, start, hist, arg>>

\* One iteration of the loop, the try body raises: in read_csv, or in
\* ingest_db (the store raises and the table is left as it was).
IngestFileFail(file) ==
    /\ pc = "INGEST_LOOP"
    /\ file \in todo
    /\ \/ /\ read_csv_raises(arg.files[file])
          /\ log' = Append(log, LogEntry("ERROR", file))
          /\ df' = df
       \/ /\ ~ read_csv_raises(arg.files[file])
          /\ df' = read_csv(arg.files[file])
          /\ log' = log \o <<LogEntry("INFO", file), LogEntry("ERROR", file)>>
    /\ todo' = todo \ {file}
    /\ UNCHANGED <<pc, db, start, hist, arg>>

\* The loop is over: "Ingestion Complete" is logged.
LoadEnd ==
    /\ pc = "INGEST_LOOP"
    /\ todo = {}
    /\ log' = Append(log, LogEntry("INFO", "Ingestion Complete"))
    /\ pc' = "INGEST_DONE"
    /\ UNCHANGED <<db, df, start, hist, arg, todo>>

NextIngest ==
    \/ LoadNoDir
    \/ LoadStart
    \/ \E file \in Stems : IngestFile(file)
    \/ \E file \in Stems : IngestFileFail(file)
    \/ LoadEnd

SpecIngest == InitIngest /\ [][NextIngest]_vars

----------------------------------------------------------------------------
(* Claims about ingestion (SpecIngest) *)

Logged(level, file) == \E i \in 1..Len(log) : log[i] = LogEntry(level, file)

\* The table holds the fields of the file: an empty field as NULL, a number
\* as that number, any other field as its text.
HoldsRowsOf(t, f) ==
    /\ t.exists /\ f.exists
    /\ t.cols = f.cols
    /\ Len(t.rows) = Len(f.rows)
    /\ \A i \in 1..Len(f.rows) : \A c \in f.cols :
          LET x == f.rows[i][c]
              y == t.rows[i][c]
          IN  \/ x.s = <<>> /\ y = Null
              \/ x.s # <<>> /\ y = x
              \/ IsDigits(x) /\ y = Num(ParseDigits(x.s, 0))

\* C8: a file that fails is logged and skipped and the loop goes on: when
\* load_raw_data has run over an existing directory, every file of the
\* directory has been visited; each one either failed (an ERROR entry names
\* it, its table is as before) or is now the table of its base name holding
\* exactly its rows, whatever table of that name existed before; tables of
\* no file are untouched.
C8_PerFileFailureSkipped ==
    /\ arg.exists => pc # "INGEST_RAISED"
    /\ pc = "INGEST_DONE" =>
          /\ \A file \in DOMAIN arg.files :
                \/ Logged("ERROR", file) /\ db[file] = start[file]
                \/ /\ ~ Logged("ERROR", file)
                   /\ Logged("INFO", file)
                   /\ HoldsRowsOf(db[file], arg.files[file])
          /\ \A file \in DOMAIN arg.files :
                read_csv_raises(arg.files[file]) => Logged("ERROR", file)
          /\ \A n \in TableNames \ DOMAIN arg.files : db[n] = start[n]

\* A file failed first and a file visited after it replaced an earlier table.
C8_Witness ==
    /\ pc = "INGEST_DONE"
    /\ \E bad \in DOMAIN arg.files, good \in DOMAIN arg.files :
          /\ log[1] = LogEntry("ERROR", bad)
          /\ ~ Logged("ERROR", good)
          /\ start[good] = OldTable
          /\ HoldsRowsOf(db[good], arg.files[good])
          /\ Len(db[good].rows) = 3

====
